---- MODULE Spec2Model ----
(***************************************************************************)
(* ConcurrentHashmap<Key, Value, Hash>: a fixed-capacity hash table of     *)
(* singly linked chains (NodeList), guarded by an array of std::mutex,     *)
(* each mutex covering mIndicesPerMutex consecutive table indices.         *)
(*                                                                         *)
(* Keys and values are small naturals.  A chain is the sequence of its     *)
(* nodes from mHead on; a Node* is a position in that sequence and nullptr *)
(* is position 0.  Every public operation is cut into the steps another    *)
(* thread can interleave with: the call (getIndex), the lock acquisition,  *)
(* the chain scan, the chain read together with the return of a reader,    *)
(* the chain writes of a writer (the creation of a node apart from its     *)
(* linking), and the counter update together with the return of a writer.  *)
(* size() and capacity() are a call and a load that returns.               *)
(* std::size_t values are written as the representative of their residue   *)
(* modulo 2^64 nearest to 0, so that 0 - 1 reads -1 (SIZE_MAX).            *)
(***************************************************************************)
EXTENDS Integers, Sequences, FiniteSets, TLC

\* ---------------------------------------------------------------- bounds
NumThreads == 2
MaxKey == 1
MaxValue == 2
MaxCalls == 4
ValuesPerThread == 2
MaxCapacity == 2
MaxConcurrencyLevel == 2
MaxLayoutCapacity == 5
MaxLayoutLevel == 5
MaxHash == 6

\* ------------------------------------------------------------- constants
nullptr == 0
NoOwner == -1

VARIABLES
    ctorError,          \* exception thrown by the constructor, or "none"
    ctorLevel,          \* the constructor's argument concurrencyLevel
    mCapacity, mMutexCount, mIndicesPerMutex, mHasher,
    mSize, mTable, mMutexes,
    pc,                 \* per thread: idle, lock, scan, apply, link, count, load
    op, key, value,     \* per thread: the current (or last) call
    node,               \* per thread: the Node* the scan left
    link,               \* per thread: the chain behind newNode->next
    changed,            \* per thread: what NodeList::insert/erase returned
    res,                \* per thread: what the last call returned or threw
    held,               \* per thread: the LockedValue objects it retains
    calls,              \* per test thread: the loop counter i of its function
    made,               \* the calls made so far by threads that call freely
    absMap,             \* history: the atomic key -> value map
    created,            \* history: the number of nodes ever linked
    expect              \* history: per thread, what a completed insert promises

vars == <<ctorError, ctorLevel, mCapacity, mMutexCount, mIndicesPerMutex, mHasher,
          mSize, mTable, mMutexes, pc, op, key, value, node, link, changed, res,
          held, calls, made, absMap, created, expect>>

config == <<ctorError, ctorLevel, mCapacity, mMutexCount, mIndicesPerMutex,
            mHasher>>
locals == <<op, key, value>>
counters == <<calls, made>>
history == <<absMap, created>>

Threads == DOMAIN pc
Keys == DOMAIN absMap
Values == 1 .. MaxValue

\* ------------------------------------------------------------ the hasher
StdHash(k) == k
dummyIntHash(k) == 0
Hash(k) == IF mHasher = "dummy" THEN dummyIntHash(k) ELSE StdHash(k)

\* ----------------------------------------------------------- construction
Min(a, b) == IF a < b THEN a ELSE b

\* a getMutexCount that looks at concurrencyLevel before capacity
CtorErrorLevelFirst(capacity, concurrencyLevel) ==
    IF concurrencyLevel = 0 THEN "InvalidConcurrencyLevel"
    ELSE IF capacity = 0 THEN "InvalidCapacity"
    ELSE "none"

\* the exception getMutexCount throws in the member initializer list; for a
\* capacity that new NodeList[capacity] cannot allocate the constructor fails
\* otherwise, which is outside this model
CtorError(capacity, concurrencyLevel) ==
    IF capacity = 0 THEN "InvalidCapacity"
    ELSE IF concurrencyLevel = 0 THEN "InvalidConcurrencyLevel"
    ELSE "none"

getMutexCount(capacity, concurrencyLevel) == Min(concurrencyLevel, capacity)

\* a getIndicesPerMutex that rounds down
getIndicesPerMutexFloor(capacity, mutexCount) == capacity \div mutexCount

getIndicesPerMutex(capacity, mutexCount) ==
    IF capacity % mutexCount # 0
    THEN (capacity + mutexCount) \div mutexCount
    ELSE capacity \div mutexCount

getIndex(k) == Hash(k) % mCapacity

getMutex(tableIndex) == tableIndex \div mIndicesPerMutex

MutexOf(k) == getMutex(getIndex(k))

\* a capacity() that returns the counter
capacityOfSize == mSize

capacity == mCapacity
size == mSize

\* --------------------------------------------------------------- NodeList
RECURSIVE FindFrom(_, _, _)
FindFrom(list, k, i) ==
    IF i > Len(list) THEN nullptr
    ELSE IF list[i].key = k THEN i
    ELSE FindFrom(list, k, i + 1)

\* a find that starts at mHead->next
NodeList_findPastHead(list, k) == FindFrom(list, k, 2)

NodeList_find(list, k) == FindFrom(list, k, 1)

\* an insert that finds the key and leaves its value as it was
NodeList_overwriteNothing(list, n, v) == list

\* NodeList::insert, its find(key) having returned node n: node->value = value
NodeList_overwrite(list, n, v) ==
    IF n \in 1 .. Len(list) THEN [list EXCEPT ![n].value = v] ELSE list

\* NodeList::insert: new Node{ key, value, mHead }, the chain mHead points to
NodeList_newNode(list) == list

\* an insert whose new node has no next
NodeList_linkAlone(k, v, behind) == <<[key |-> k, value |-> v]>>

\* NodeList::insert: mHead = newNode, whose next is the chain behind
NodeList_link(k, v, behind) == <<[key |-> k, value |-> v]>> \o behind

\* an erase that searches from mHead->next without looking at mHead
NodeList_eraseScanPastHead(list, k) == FindFrom(list, k, 2)

\* NodeList::erase up to the end of its loop: the node to unlink
NodeList_eraseScan(list, k) ==
    IF Len(list) = 0 THEN nullptr
    ELSE IF list[1].key = k THEN 1
    ELSE FindFrom(list, k, 2)

\* an erase that deletes the head and leaves any other node linked
NodeList_eraseHeadOnly(list, n) == IF n = 1 /\ Len(list) > 0 THEN Tail(list) ELSE list

\* NodeList::erase from there: deleteHead, or prev->next = node->next
NodeList_erase(list, n) ==
    IF n \in 1 .. Len(list)
    THEN SubSeq(list, 1, n - 1) \o SubSeq(list, n + 1, Len(list))
    ELSE list

\* an erase that reports a deletion when it found no node
NodeList_eraseResultAlways(n) == TRUE

NodeList_eraseResult(n) == n # nullptr

\* node->value of the node at position n
NodeValue(list, n) == IF n \in 1 .. Len(list) THEN list[n].value ELSE 0

\* ------------------------------------------------------------- std::mutex
\* a lock() that does not wait for the owner to unlock
LockAvailableNoWait(m) == TRUE

\* a lock() that waits until no mutex of the array is locked
LockAvailableGlobal(m) == \A n \in DOMAIN mMutexes : mMutexes[n] = NoOwner

\* lock() returns once the mutex is unlocked; called by the thread that owns
\* the mutex its behaviour is undefined, see Relock
LockAvailable(m) == mMutexes[m] = NoOwner

\* the thread calling lock() is the one that has the mutex locked
OwnedByCaller(m, t) == mMutexes[m] = t

Acquire(mutexes, m, t) == [mutexes EXCEPT ![m] = t]

\* ~lock_guard / ~unique_lock of an operation that hands no lock back
ReleaseOnExit(mutexes, m) == [mutexes EXCEPT ![m] = NoOwner]

\* a get whose lock stays locked when it throws
ReleaseOnThrowLeaks(mutexes, m) == mutexes

\* ~unique_lock of a get that throws KeyNotFound
ReleaseOnThrow(mutexes, m) == ReleaseOnExit(mutexes, m)

\* an exit that leaves the mutex locked
ReleaseOnExitLeaks(mutexes, m) == mutexes

\* ~lock_guard of insert and erase
ReleaseOnReturn(mutexes, m) == ReleaseOnExit(mutexes, m)

\* a get whose lock dies with the call, as a lock_guard would
KeepLockedScoped(mutexes, m) == ReleaseOnExit(mutexes, m)

\* std::move(lock) into the LockedValue of a successful get
KeepLocked(mutexes, m) == mutexes

\* ++mSize, --mSize
Increment(n) == n + 1

\* an erase that leaves the counter as it is
DecrementNever(n) == n

Decrement(n) == n - 1

\* ------------------------------------------------------------------ Init
NoResult == [op |-> "none", kind |-> "none", val |-> 0]

InitThreads(T) ==
    /\ pc = [t \in T |-> "idle"]
    /\ op = [t \in T |-> "none"]
    /\ key = [t \in T |-> 0]
    /\ value = [t \in T |-> 0]
    /\ node = [t \in T |-> nullptr]
    /\ link = [t \in T |-> <<>>]
    /\ changed = [t \in T |-> FALSE]
    /\ res = [t \in T |-> NoResult]
    /\ held = [t \in T |-> {}]
    /\ calls = [t \in T |-> 0]
    /\ made = 0
    /\ expect = [t \in T |-> {}]

\* the member initializers but mSize and mTable; nothing exists after a throw
ConstructMembers(cap, level, hasher) ==
    /\ ctorError = CtorError(cap, level)
    /\ ctorLevel = level
    /\ mCapacity = cap
    /\ mHasher = hasher
    /\ IF CtorError(cap, level) = "none"
       THEN /\ mMutexCount = getMutexCount(cap, level)
            /\ mIndicesPerMutex = getIndicesPerMutex(cap, getMutexCount(cap, level))
            /\ mMutexes = [m \in 0 .. getMutexCount(cap, level) - 1 |-> NoOwner]
       ELSE /\ mMutexCount = 0
            /\ mIndicesPerMutex = 0
            /\ mMutexes = <<>>

\* new NodeList[capacity]
EmptyTable(cap) == [i \in 0 .. cap - 1 |-> <<>>]

Construct(cap, level, hasher) ==
    /\ ConstructMembers(cap, level, hasher)
    /\ mSize = 0
    /\ created = 0
    /\ mTable = IF CtorError(cap, level) = "none" THEN EmptyTable(cap) ELSE <<>>

Init ==
    /\ \E cap \in 0 .. MaxCapacity, level \in 0 .. MaxConcurrencyLevel,
          hasher \in {"std", "dummy"} : Construct(cap, level, hasher)
    /\ InitThreads(0 .. NumThreads - 1)
    /\ absMap = [k \in 0 .. MaxKey |-> {}]

\* ------------------------------------------------------------- the calls
\* inside a call that works on a key
InFlight(u) == pc[u] \notin {"idle", "load"}
Mutates(u, k) == InFlight(u) /\ op[u] \in {"insert", "erase"} /\ key[u] = k

\* What thread t, calling o on k now, is promised by the inserts that have
\* returned: the value of k, when k is present and no insert or erase of k is
\* under way.
Promise(t, o, k) ==
    IF /\ o \in {"find", "getCopy", "erase"}
       /\ \A u \in Threads \ {t} : ~Mutates(u, k)
    THEN absMap[k]
    ELSE {}

\* a call of operation o: the arguments are bound and getIndex(key) is computed
Call(t, o, k, v) ==
    /\ ctorError = "none"
    /\ pc[t] = "idle"
    /\ pc' = [pc EXCEPT ![t] = "lock"]
    /\ op' = [op EXCEPT ![t] = o]
    /\ key' = [key EXCEPT ![t] = k]
    /\ value' = [value EXCEPT ![t] = v]
    /\ res' = [res EXCEPT ![t] = NoResult]
    /\ expect' = [u \in Threads |->
                    IF u = t THEN Promise(t, o, k)
                    ELSE IF o \in {"insert", "erase"} /\ InFlight(u) /\ key[u] = k
                         THEN {}
                         ELSE expect[u]]
    /\ UNCHANGED <<config, mSize, mTable, mMutexes, node, link, changed, held,
                   history>>

\* std::lock_guard / std::unique_lock lock(getMutex(index))
Lock(t) ==
    /\ pc[t] = "lock"
    /\ LockAvailable(MutexOf(key[t]))
    /\ mMutexes' = Acquire(mMutexes, MutexOf(key[t]), t)
    /\ pc' = [pc EXCEPT ![t] = "scan"]
    /\ UNCHANGED <<config, locals, mSize, mTable, node, link, changed, res, held,
                   counters, history, expect>>

\* mTable[index].find(key), or the search loop of NodeList::erase
Scan(t) ==
    /\ pc[t] = "scan"
    /\ node' = [node EXCEPT ![t] =
                  IF op[t] = "erase"
                  THEN NodeList_eraseScan(mTable[getIndex(key[t])], key[t])
                  ELSE NodeList_find(mTable[getIndex(key[t])], key[t])]
    /\ pc' = [pc EXCEPT ![t] = "apply"]
    /\ UNCHANGED <<config, locals, mSize, mTable, mMutexes, link, changed, res,
                   held, counters, history, expect>>

\* what a call returned (kind, val) or threw (kind), with the operation called
BoolResult(o, b) == [op |-> o, kind |-> "bool", val |-> IF b THEN 1 ELSE 0]
ValueResult(o, v) == [op |-> o, kind |-> "value", val |-> v]
KeyNotFound(o) == [op |-> o, kind |-> "KeyNotFound", val |-> 0]
VoidResult(o) == [op |-> o, kind |-> "void", val |-> 0]
SystemError(o) == [op |-> o, kind |-> "system_error", val |-> 0]

\* the return of a call: its locals die, its result stays with the caller
Finish(t, r) ==
    /\ pc' = [pc EXCEPT ![t] = "idle"]
    /\ res' = [res EXCEPT ![t] = r]
    /\ op' = [op EXCEPT ![t] = "none"]
    /\ key' = [key EXCEPT ![t] = 0]
    /\ value' = [value EXCEPT ![t] = 0]
    /\ node' = [node EXCEPT ![t] = nullptr]
    /\ link' = [link EXCEPT ![t] = <<>>]
    /\ changed' = [changed EXCEPT ![t] = FALSE]
    /\ expect' = [expect EXCEPT ![t] = {}]

\* lock() on a std::mutex the calling thread already owns, through the handle
\* of an earlier get: undefined behaviour, of which the standard library
\* makes either a wait that never ends (no step of the thread) or a
\* std::system_error thrown from lock(), which ends the call before it has
\* locked or read anything; this is the step of the second outcome
Relock(t) ==
    /\ pc[t] = "lock"
    /\ OwnedByCaller(MutexOf(key[t]), t)
    /\ Finish(t, SystemError(op[t]))
    /\ UNCHANGED <<config, mSize, mTable, mMutexes, held, counters, history>>

\* find: return mTable[index].find(key) != nullptr
FindReturn(t) ==
    /\ pc[t] = "apply" /\ op[t] = "find"
    /\ Finish(t, BoolResult("find", node[t] # nullptr))
    /\ mMutexes' = ReleaseOnExit(mMutexes, MutexOf(key[t]))
    /\ UNCHANGED <<config, mSize, mTable, held, counters, history>>

\* getCopy: return node->value, or throw KeyNotFound
GetCopyReturn(t) ==
    /\ pc[t] = "apply" /\ op[t] = "getCopy"
    /\ Finish(t, IF node[t] # nullptr
                 THEN ValueResult("getCopy", NodeValue(mTable[getIndex(key[t])], node[t]))
                 ELSE KeyNotFound("getCopy"))
    /\ mMutexes' = ReleaseOnExit(mMutexes, MutexOf(key[t]))
    /\ UNCHANGED <<config, mSize, mTable, held, counters, history>>

\* get: return LockedValue(node->value, std::move(lock)), or throw KeyNotFound
GetReturn(t) ==
    /\ pc[t] = "apply" /\ op[t] = "get"
    /\ IF node[t] # nullptr
       THEN LET v == NodeValue(mTable[getIndex(key[t])], node[t]) IN
            /\ Finish(t, ValueResult("get", v))
            /\ held' = [held EXCEPT ![t] = @ \cup {[key |-> key[t], value |-> v]}]
            /\ mMutexes' = KeepLocked(mMutexes, MutexOf(key[t]))
       ELSE /\ Finish(t, KeyNotFound("get"))
            /\ held' = held
            /\ mMutexes' = ReleaseOnThrow(mMutexes, MutexOf(key[t]))
    /\ UNCHANGED <<config, mSize, mTable, counters, history>>

\* insert: the key found, node->value = value; the key not found, new Node
InsertApply(t) ==
    /\ pc[t] = "apply" /\ op[t] = "insert"
    /\ IF node[t] # nullptr
       THEN /\ mTable' = [mTable EXCEPT ![getIndex(key[t])] =
                            NodeList_overwrite(@, node[t], value[t])]
            /\ absMap' = [absMap EXCEPT ![key[t]] = {value[t]}]
            /\ created' = created
            /\ pc' = [pc EXCEPT ![t] = "count"]
            /\ link' = link
       ELSE /\ link' = [link EXCEPT ![t] = NodeList_newNode(mTable[getIndex(key[t])])]
            /\ pc' = [pc EXCEPT ![t] = "link"]
            /\ UNCHANGED <<mTable, history>>
    /\ UNCHANGED <<config, locals, mSize, mMutexes, node, changed, res, held,
                   counters, expect>>

\* insert: mHead = newNode; return true
InsertLink(t) ==
    /\ pc[t] = "link"
    /\ mTable' = [mTable EXCEPT ![getIndex(key[t])] =
                    NodeList_link(key[t], value[t], link[t])]
    /\ changed' = [changed EXCEPT ![t] = TRUE]
    /\ absMap' = [absMap EXCEPT ![key[t]] = {value[t]}]
    /\ created' = created + 1
    /\ pc' = [pc EXCEPT ![t] = "count"]
    /\ UNCHANGED <<config, locals, mSize, mMutexes, node, link, res, held, counters,
                   expect>>

\* insert: if (inserted) ++mSize; and the return
InsertReturn(t) ==
    /\ pc[t] = "count" /\ op[t] = "insert"
    /\ mSize' = IF changed[t] THEN Increment(mSize) ELSE mSize
    /\ Finish(t, VoidResult("insert"))
    /\ mMutexes' = ReleaseOnReturn(mMutexes, MutexOf(key[t]))
    /\ UNCHANGED <<config, mTable, held, counters, history>>

\* erase: the rest of mTable[index].erase(key)
EraseApply(t) ==
    /\ pc[t] = "apply" /\ op[t] = "erase"
    /\ mTable' = [mTable EXCEPT ![getIndex(key[t])] = NodeList_erase(@, node[t])]
    /\ changed' = [changed EXCEPT ![t] = NodeList_eraseResult(node[t])]
    /\ absMap' = [absMap EXCEPT ![key[t]] = {}]
    /\ created' = created
    /\ pc' = [pc EXCEPT ![t] = "count"]
    /\ UNCHANGED <<config, locals, mSize, mMutexes, node, link, res, held, counters,
                   expect>>

\* erase: if (erased) --mSize; and the return
EraseReturn(t) ==
    /\ pc[t] = "count" /\ op[t] = "erase"
    /\ mSize' = IF changed[t] THEN Decrement(mSize) ELSE mSize
    /\ Finish(t, VoidResult("erase"))
    /\ mMutexes' = ReleaseOnReturn(mMutexes, MutexOf(key[t]))
    /\ UNCHANGED <<config, mTable, held, counters, history>>

\* the caller unlocks a LockedValue, or lets it go out of scope
ReleaseHandle(t) ==
    /\ pc[t] = "idle"
    /\ \E h \in held[t] :
          /\ held' = [held EXCEPT ![t] = @ \ {h}]
          /\ mMutexes' = ReleaseOnExit(mMutexes, MutexOf(h.key))
    /\ UNCHANGED <<config, locals, mSize, mTable, pc, node, link, changed, res,
                   counters, history, expect>>

\* a call of size() or capacity(): no argument, no index, no lock
CallPlain(t, o) ==
    /\ ctorError = "none"
    /\ pc[t] = "idle"
    /\ pc' = [pc EXCEPT ![t] = "load"]
    /\ op' = [op EXCEPT ![t] = o]
    /\ res' = [res EXCEPT ![t] = NoResult]
    /\ UNCHANGED <<config, key, value, mSize, mTable, mMutexes, node, link, changed,
                   held, history, expect>>

\* size: return mSize, the load of the atomic counter
SizeReturn(t) ==
    /\ pc[t] = "load" /\ op[t] = "size"
    /\ Finish(t, ValueResult("size", size))
    /\ UNCHANGED <<config, mSize, mTable, mMutexes, held, counters, history>>

\* capacity: return mCapacity
CapacityReturn(t) ==
    /\ pc[t] = "load" /\ op[t] = "capacity"
    /\ Finish(t, ValueResult("capacity", capacity))
    /\ UNCHANGED <<config, mSize, mTable, mMutexes, held, counters, history>>

\* ------------------------------------------------- threads calling freely
CallRead(t) ==
    /\ made < MaxCalls
    /\ \E o \in {"find", "getCopy", "get"}, k \in Keys : Call(t, o, k, 0)
    /\ made' = made + 1 /\ calls' = calls

CallSize(t) ==
    /\ made < MaxCalls
    /\ CallPlain(t, "size")
    /\ made' = made + 1 /\ calls' = calls

CallCapacity(t) ==
    /\ made < MaxCalls
    /\ CallPlain(t, "capacity")
    /\ made' = made + 1 /\ calls' = calls

CallInsert(t) ==
    /\ made < MaxCalls
    /\ \E k \in Keys, v \in Values : Call(t, "insert", k, v)
    /\ made' = made + 1 /\ calls' = calls

CallErase(t) ==
    /\ made < MaxCalls
    /\ \E k \in Keys : Call(t, "erase", k, 0)
    /\ made' = made + 1 /\ calls' = calls

Next ==
    \/ \E t \in Threads : CallRead(t)
    \/ \E t \in Threads : CallSize(t)
    \/ \E t \in Threads : CallCapacity(t)
    \/ \E t \in Threads : CallInsert(t)
    \/ \E t \in Threads : CallErase(t)
    \/ \E t \in Threads : Lock(t)
    \/ \E t \in Threads : Relock(t)
    \/ \E t \in Threads : Scan(t)
    \/ \E t \in Threads : FindReturn(t)
    \/ \E t \in Threads : GetCopyReturn(t)
    \/ \E t \in Threads : GetReturn(t)
    \/ \E t \in Threads : InsertApply(t)
    \/ \E t \in Threads : InsertLink(t)
    \/ \E t \in Threads : InsertReturn(t)
    \/ \E t \in Threads : EraseApply(t)
    \/ \E t \in Threads : EraseReturn(t)
    \/ \E t \in Threads : ReleaseHandle(t)
    \/ \E t \in Threads : SizeReturn(t)
    \/ \E t \in Threads : CapacityReturn(t)

Spec == Init /\ [][Next]_vars

\* --------------------------------- the concurrent tests: inserter threads
ValidConstruct ==
    \E cap \in 1 .. MaxCapacity, level \in 1 .. MaxConcurrencyLevel,
       hasher \in {"std", "dummy"} : Construct(cap, level, hasher)

TotalValues == NumThreads * ValuesPerThread

\* createInserter: hashmap.insert(threadIndex * count + i, i * i), i = 0, 1, ...
createInserter(t) ==
    /\ calls[t] < ValuesPerThread
    /\ Call(t, "insert", t * ValuesPerThread + calls[t], calls[t] * calls[t])
    /\ calls' = [calls EXCEPT ![t] = @ + 1] /\ made' = made

InitInsert ==
    /\ ValidConstruct
    /\ InitThreads(0 .. NumThreads - 1)
    /\ absMap = [k \in 0 .. TotalValues - 1 |-> {}]

NextInsert ==
    \/ \E t \in Threads : createInserter(t)
    \/ \E t \in Threads : Lock(t)
    \/ \E t \in Threads : Scan(t)
    \/ \E t \in Threads : InsertApply(t)
    \/ \E t \in Threads : InsertLink(t)
    \/ \E t \in Threads : InsertReturn(t)

SpecInsert == InitInsert /\ [][NextInsert]_vars

\* ------------------------ the concurrent tests: eraser and finder threads
\* hashmap.insert(k, v) run to its end by a thread that is alone
InsertAlone(table, k, v) ==
    LET list == table[getIndex(k)]
        n == NodeList_find(list, k)
    IN  [table EXCEPT ![getIndex(k)] =
            IF n # nullptr THEN NodeList_overwrite(list, n, v)
            ELSE NodeList_link(k, v, NodeList_newNode(list))]

\* for (int i = 0; i < n; ++i) hashmap.insert(i, rand()), from i on; the
\* value drawn plays no part in what follows and is written 1
RECURSIVE Populate(_, _, _)
Populate(table, i, n) ==
    IF i >= n THEN table
    ELSE Populate(InsertAlone(table, i, 1), i + 1, n)

\* construction, then n inserts by the constructing thread
ConstructPopulated(n) ==
    /\ \E cap \in 1 .. MaxCapacity, level \in 1 .. MaxConcurrencyLevel,
          hasher \in {"std", "dummy"} : ConstructMembers(cap, level, hasher)
    /\ mTable = Populate(EmptyTable(mCapacity), 0, n)
    /\ mSize = n
    /\ created = n

Erasers == 0 .. NumThreads - 1
Finders == NumThreads .. 2 * NumThreads - 1

\* createEraser: hashmap.erase(threadIndex * count + i), i = 0, 1, ...
createEraser(t) ==
    /\ t \in Erasers
    /\ calls[t] < ValuesPerThread
    /\ Call(t, "erase", t * ValuesPerThread + calls[t], 0)
    /\ calls' = [calls EXCEPT ![t] = @ + 1] /\ made' = made

\* createFinder: hashmap.find(threadIndex * count + i), i = 0, 1, ...
createFinder(t) ==
    /\ t \in Finders
    /\ calls[t] < ValuesPerThread
    /\ Call(t, "find", (t - NumThreads) * ValuesPerThread + calls[t], 0)
    /\ calls' = [calls EXCEPT ![t] = @ + 1] /\ made' = made

InitErase ==
    /\ ConstructPopulated(TotalValues)
    /\ InitThreads(Erasers \cup Finders)
    /\ absMap = [k \in 0 .. TotalValues - 1 |-> {1}]

NextErase ==
    \/ \E t \in Threads : createEraser(t)
    \/ \E t \in Threads : createFinder(t)
    \/ \E t \in Threads : Lock(t)
    \/ \E t \in Threads : Scan(t)
    \/ \E t \in Threads : FindReturn(t)
    \/ \E t \in Threads : EraseApply(t)
    \/ \E t \in Threads : EraseReturn(t)

SpecErase == InitErase /\ [][NextErase]_vars

\* ----------------------- threads calling freely on a table holding every key
InitPopulated ==
    /\ ConstructPopulated(MaxKey + 1)
    /\ InitThreads(0 .. NumThreads - 1)
    /\ absMap = [k \in 0 .. MaxKey |-> {1}]

SpecPopulated == InitPopulated /\ [][Next]_vars

\* ---------- threads of one keyed call each, as getThread and eraseThread are
\* the one call of the thread: any operation on any key
callKeyed(t) ==
    /\ calls[t] = 0
    /\ \/ \E o \in {"find", "getCopy", "get", "erase"}, k \in Keys : Call(t, o, k, 0)
       \/ \E k \in Keys, v \in Values : Call(t, "insert", k, v)
    /\ calls' = [calls EXCEPT ![t] = @ + 1] /\ made' = made

\* getThread: hashmap.size() while valueAndLock is in scope
sizeUnderHandle(t) ==
    /\ calls[t] = 1 /\ held[t] # {}
    /\ CallPlain(t, "size")
    /\ calls' = [calls EXCEPT ![t] = @ + 1] /\ made' = made

\* the steps of a call after its lock acquisition
Proceed(t) ==
    \/ Scan(t)
    \/ FindReturn(t) \/ GetCopyReturn(t) \/ GetReturn(t)
    \/ InsertApply(t) \/ InsertLink(t) \/ InsertReturn(t)
    \/ EraseApply(t) \/ EraseReturn(t)
    \/ SizeReturn(t)

NextFair ==
    \/ \E t \in Threads : callKeyed(t)
    \/ \E t \in Threads : sizeUnderHandle(t)
    \/ \E t \in Threads : Lock(t)
    \/ \E t \in Threads : Proceed(t)
    \/ \E t \in Threads : ReleaseHandle(t)

\* a scheduler that lets every thread run, a lock() that is granted to every
\* thread that keeps finding the mutex free, and handles that go out of scope
Fairness ==
    \A t \in 0 .. NumThreads - 1 :
        /\ SF_vars(Lock(t))
        /\ WF_vars(Proceed(t))
        /\ WF_vars(ReleaseHandle(t))

SpecFair == InitPopulated /\ [][NextFair]_vars /\ Fairness

\* ------------- a single thread, one call on a container of any small layout
\* a test of test.cpp: one call on the container it has just constructed
callOnce(t) ==
    /\ calls[t] = 0
    /\ \/ \E o \in {"find", "getCopy", "get", "erase"}, k \in Keys : Call(t, o, k, 0)
       \/ \E k \in Keys, v \in Values : Call(t, "insert", k, v)
       \/ \E o \in {"size", "capacity"} : CallPlain(t, o)
    /\ calls' = [calls EXCEPT ![t] = @ + 1] /\ made' = made

InitLayout ==
    /\ \E cap \in 0 .. MaxLayoutCapacity, level \in 0 .. MaxLayoutLevel,
          hasher \in {"std", "dummy"} : Construct(cap, level, hasher)
    /\ InitThreads({0})
    /\ absMap = [k \in 0 .. MaxHash |-> {}]

NextLayout ==
    \/ \E t \in Threads : callOnce(t)
    \/ \E t \in Threads : Lock(t)
    \/ \E t \in Threads : Scan(t)
    \/ \E t \in Threads : FindReturn(t)
    \/ \E t \in Threads : GetCopyReturn(t)
    \/ \E t \in Threads : GetReturn(t)
    \/ \E t \in Threads : InsertApply(t)
    \/ \E t \in Threads : InsertLink(t)
    \/ \E t \in Threads : InsertReturn(t)
    \/ \E t \in Threads : EraseApply(t)
    \/ \E t \in Threads : EraseReturn(t)
    \/ \E t \in Threads : SizeReturn(t)
    \/ \E t \in Threads : CapacityReturn(t)

SpecLayout == InitLayout /\ [][NextLayout]_vars

\* ------------------------------------------------------- reading the state
\* the values the nodes of key k hold, over all chains: empty when k has no
\* entry
Lookup(k) ==
    {mTable[i][j].value : <<i, j>> \in
        {x \in UNION {{<<i, j>> : j \in 1 .. Len(mTable[i])} : i \in DOMAIN mTable}
            : mTable[x[1]][x[2]].key = k}}

TableKeys == {k \in Keys : Lookup(k) # {}}

\* between the lock acquisition and the unlock of its own call
InCriticalSection(t) == pc[t] \in {"scan", "apply", "link", "count"}

HandleOn(t, m) == \E h \in held[t] : MutexOf(h.key) = m

\* thread t is past lock() on mutex m and has not unlocked it
Occupies(t, m) ==
    \/ InCriticalSection(t) /\ MutexOf(key[t]) = m
    \/ HandleOn(t, m)

\* ----------------------------------------------------------------- claims

\* C1: at most one thread is past the acquisition of a given stripe lock; so
\* while a thread retains the handle of a successful get, every call another
\* thread makes on a key of that stripe stays before its lock acquisition.
C1_MutualExclusion ==
    ctorError = "none" =>
        /\ \A m \in DOMAIN mMutexes :
              Cardinality({t \in Threads : Occupies(t, m)}) <= 1
        /\ \A t \in Threads, u \in Threads :
              (u # t /\ InFlight(u) /\ HandleOn(t, MutexOf(key[u])))
                  => pc[u] = "lock"

\* an erase(k) of another thread waits while the handle of get(k) is retained
C1_Witness ==
    \E t \in Threads : \E u \in Threads \ {t} : \E h \in held[t] :
        pc[u] = "lock" /\ op[u] = "erase" /\ key[u] = h.key

OnlyKeyIs(k) == TableKeys = {k}

\* C2 as stated: the entry of a retained handle stays with its value, and the
\* holder reads size() = 1 whenever k is the only key and no other thread is
\* inside an insert.
C2_Original ==
    \A t \in Threads : \A h \in held[t] :
        /\ Lookup(h.key) = {h.value}
        /\ (/\ pc[t] = "idle"
            /\ OnlyKeyIs(h.key)
            /\ \A u \in Threads \ {t} : op[u] # "insert")
           => size = 1

\* an erase that has unlinked its node and not yet decremented mSize
MidErase(u) == pc[u] = "count" /\ op[u] = "erase" /\ changed[u]

\* C2 amended: the entry of a retained handle stays with its value, and the
\* holder reads size() = 1 whenever k is the only key, no other thread is
\* inside an insert and no other thread is between the unlinking and the
\* decrement of an erase of another key.
C2_HandleKeepsEntry ==
    \A t \in Threads : \A h \in held[t] :
        /\ Lookup(h.key) = {h.value}
        /\ (/\ pc[t] = "idle"
            /\ OnlyKeyIs(h.key)
            /\ \A u \in Threads \ {t} : op[u] # "insert" /\ ~MidErase(u))
           => size = 1

\* a handle on the only key is retained while another thread's erase of it waits
C2_Witness ==
    \E t \in Threads : \E u \in Threads \ {t} : \E h \in held[t] :
        /\ pc[t] = "idle" /\ OnlyKeyIs(h.key) /\ size = 1
        /\ pc[u] = "lock" /\ op[u] = "erase" /\ key[u] = h.key

\* what operation o returns on a key the atomic map holds as a (a set)
AbsResult(o, a) ==
    IF o = "find" THEN BoolResult(o, a # {})
    ELSE IF a = {} THEN KeyNotFound(o)
    ELSE ValueResult(o, CHOOSE v \in a : TRUE)

\* the step at which the call of thread t takes effect
LinearizesAt(t) ==
    \/ pc[t] = "apply" /\ pc'[t] \in {"idle", "count"}
    \/ pc[t] = "link" /\ pc'[t] = "count"

C3_Step(t) ==
    LinearizesAt(t) =>
        /\ mMutexes[MutexOf(key[t])] = t
        /\ op[t] \in {"find", "getCopy", "get"} =>
              /\ res'[t] = AbsResult(op[t], absMap[key[t]])
              /\ mTable' = mTable
        /\ op[t] = "insert" => changed'[t] = (absMap[key[t]] = {})
        /\ op[t] = "erase" => changed'[t] = (absMap[key[t]] # {})
        /\ expect[t] # {} =>
              /\ op[t] = "find" => res'[t] = BoolResult("find", TRUE)
              /\ op[t] = "getCopy" => {res'[t].val} = expect[t] /\ res'[t].kind = "value"
              /\ op[t] = "erase" => changed'[t]

\* C3: the table is the atomic map absMap, on which every call takes effect in
\* one step made while it holds the lock of its stripe and with the outcome the
\* atomic operation has there; and a find, getCopy or erase called after an
\* insert(k, v) returned, no insert or erase of k being under way since,
\* observes k present with value v.
C3_Refinement ==
    /\ [](ctorError = "none" => \A k \in Keys : Lookup(k) = absMap[k])
    /\ [][\A t \in Threads : C3_Step(t)]_vars

\* an erase called after the insert of its key returned has removed the entry
C3_Witness ==
    \E t \in Threads :
        pc[t] = "count" /\ op[t] = "erase" /\ expect[t] # {} /\ changed[t]

\* every thread has made its ValuesPerThread calls and returned from the last
Joined(T) == \A t \in T : pc[t] = "idle" /\ calls[t] = ValuesPerThread

\* find(k), read off the state
Found(k) == NodeList_find(mTable[getIndex(k)], k) # nullptr

\* C4: once NumThreads inserters of ValuesPerThread distinct keys each have
\* all finished, size() is their product and find is true of every key.
C4_NoInsertLost ==
    Joined(Threads) => size = TotalValues /\ \A k \in Keys : Found(k)

\* all inserters have finished on a table whose keys all share one bucket
C4_Witness ==
    /\ Joined(Threads) /\ size = TotalValues
    /\ mHasher = "dummy" /\ mMutexCount < TotalValues
    /\ Len(mTable[0]) = TotalValues

\* C5: once the erasers of a table holding keys 0 .. NumThreads *
\* ValuesPerThread - 1 have all finished, and no finder is inside a call,
\* size() is 0 and find is false of every key.
C5_AllErased ==
    (Joined(Erasers) /\ \A t \in Threads : pc[t] = "idle")
        => size = 0 /\ \A k \in Keys : ~Found(k)

\* erasers and finders have all finished, on keys that shared one bucket
C5_Witness ==
    /\ Joined(Threads) /\ size = 0 /\ mHasher = "dummy"
    /\ \E t \in Finders : res[t] = BoolResult("find", TRUE)

\* the step of thread t that updates the chain of an insert or an erase
Updates(t, o) == op[t] = o /\ pc[t] \in {"apply", "link"} /\ pc'[t] = "count"

\* the step of thread t that returns from operation o
Returns(t, o) == op[t] = o /\ pc[t] \in {"apply", "count"} /\ pc'[t] = "idle"

C6_Step(t) ==
    /\ Updates(t, "insert") =>
          /\ changed'[t] = (Lookup(key[t]) = {})
          /\ Lookup(key[t])' = {value[t]}
          /\ Found(key[t])'
    /\ Returns(t, "insert") =>
          /\ size' = IF changed[t] THEN size + 1 ELSE size
          /\ Lookup(key[t]) = {value[t]}
          /\ res'[t] = VoidResult("insert")

\* C6: insert(k, v) on an absent k adds the entry and raises size() by 1, on a
\* present k it replaces the value and leaves size() alone; either way k is
\* found with value v from the update to the return of the call.
C6_Upsert ==
    /\ [](\A t \in Threads : (pc[t] = "count" /\ op[t] = "insert")
              => Lookup(key[t]) = {value[t]} /\ Found(key[t]))
    /\ [][\A t \in Threads : C6_Step(t)]_vars

\* an insert has overwritten the value of a present key
C6_Witness ==
    \E t \in Threads :
        /\ pc[t] = "count" /\ op[t] = "insert" /\ ~changed[t]
        /\ Lookup(key[t]) = {value[t]} /\ size = 1

C7_Step(t) ==
    /\ Updates(t, "erase") =>
          /\ changed'[t] = (Lookup(key[t]) # {})
          /\ Lookup(key[t])' = {}
          /\ ~Found(key[t])'
          /\ Lookup(key[t]) = {} => mTable' = mTable
    /\ Returns(t, "erase") =>
          /\ size' = IF changed[t] THEN size - 1 ELSE size
          /\ res'[t] = VoidResult("erase")
          /\ ~Found(key[t])

\* C7: erase(k) on a present k removes the entry and lowers size() by 1, after
\* which find(k) is false; on an absent k it returns without error and leaves
\* the chains and size() as they were.
C7_Erase == [][\A t \in Threads : C7_Step(t)]_vars

\* an erase has removed the entry of its key
C7_Witness ==
    \E t \in Threads :
        pc[t] = "count" /\ op[t] = "erase" /\ changed[t] /\ Lookup(key[t]) = {}

C8_Step(t, o) ==
    Returns(t, o) =>
        /\ (res'[t] = KeyNotFound(o)) = (Lookup(key[t]) = {})
        /\ Lookup(key[t]) # {} =>
              /\ res'[t].kind = "value"
              /\ Lookup(key[t]) = {res'[t].val}
              /\ o = "get" => [key |-> key[t], value |-> res'[t].val] \in held'[t]
        /\ mTable' = mTable /\ mSize' = mSize

\* C8: get(k) and getCopy(k) throw KeyNotFound exactly when k has no entry at
\* their step under the lock, and change neither the chains nor the counter;
\* when k has an entry, getCopy returns its value and get hands back the
\* handle of that entry.
C8_KeyNotFound == [][\A t \in Threads : C8_Step(t, "get") /\ C8_Step(t, "getCopy")]_vars

\* a get and a getCopy have thrown KeyNotFound on a table that is not empty
C8_Witness ==
    /\ \E t \in Threads : res[t] = KeyNotFound("get")
    /\ \E t \in Threads : res[t] = KeyNotFound("getCopy")
    /\ TableKeys # {}

\* the mutexes thread t has locked and not unlocked
OwnedBy(t) == {m \in DOMAIN mMutexes : mMutexes[m] = t}

Handles(t) == {MutexOf(h.key) : h \in held[t]}

C9_Step(t) ==
    /\ Returns(t, "get") =>
          IF res'[t].kind = "value"
          THEN /\ MutexOf(key[t]) \notin Handles(t)
               /\ Handles(t)' = Handles(t) \cup {MutexOf(key[t])}
               /\ mMutexes' = mMutexes
          ELSE held' = held /\ mMutexes'[MutexOf(key[t])] = NoOwner
    /\ \A o \in {"find", "getCopy", "insert", "erase"} : Returns(t, o) =>
          held' = held /\ mMutexes'[MutexOf(key[t])] = NoOwner
    /\ (pc'[t] = pc[t] /\ pc[t] # "idle") => OwnedBy(t)' = OwnedBy(t)

\* C9: a thread outside a call owns exactly the mutexes of the handles it
\* retains; every return and every throw leaves the mutex of the call unlocked
\* except the return of a successful get, which adds the one mutex of its key
\* to the caller's handles; and a retained handle's mutex stays the holder's
\* until the holder releases it.
C9_LockOwnership ==
    /\ [](ctorError = "none" => \A t \in Threads :
              /\ pc[t] \in {"idle", "lock"} => OwnedBy(t) = Handles(t)
              /\ Handles(t) \subseteq OwnedBy(t)
              /\ Cardinality(Handles(t)) = Cardinality(held[t]))
    /\ [][\A t \in Threads : C9_Step(t)]_vars

\* one thread retains the lock of a successful get, another has returned from
\* a get that threw and owns nothing
C9_Witness ==
    \E t \in Threads : \E u \in Threads \ {t} :
        /\ pc[t] = "idle" /\ res[t].op = "get" /\ res[t].kind = "value"
        /\ Cardinality(OwnedBy(t)) = 1
        /\ pc[u] = "idle" /\ res[u] = KeyNotFound("get") /\ OwnedBy(u) = {}

\* thread t waits for a mutex thread u has locked
Waits(t, u) == pc[t] = "lock" /\ mMutexes[MutexOf(key[t])] = u

\* the threads of S wait in a cycle, each for a mutex another of them holds
WaitCycle(S) == S # {} /\ \A t \in S : \E u \in S \ {t} : Waits(t, u)

\* a thread inside a call owns, beyond its handles, at most the mutex of the
\* call, and none while it waits or is outside a call
OneLockPerCall ==
    \A t \in Threads :
        /\ OwnedBy(t) \ Handles(t) \subseteq {MutexOf(key[t])}
        /\ pc[t] \in {"idle", "lock"} => OwnedBy(t) \ Handles(t) = {}

\* C10 as stated: no operation acquires more than one lock and no state is
\* reachable in which threads wait in a cycle.
C10_Original ==
    ctorError = "none" =>
        /\ OneLockPerCall
        /\ \A S \in SUBSET Threads : ~WaitCycle(S)

\* C10 amended: no operation acquires more than one lock, and threads wait in
\* a cycle only when each of them retains the handle of an earlier get: every
\* mutex waited for in a cycle is held through a retained handle.
C10_NoCycleWithoutHandles ==
    ctorError = "none" =>
        /\ OneLockPerCall
        /\ \A S \in SUBSET Threads : WaitCycle(S) =>
              \A t \in S : held[t] # {} /\ OwnedBy(t) = Handles(t)

\* two threads each retain a handle and wait for the mutex of the other's
C10_Witness ==
    \E t \in Threads : \E u \in Threads \ {t} :
        /\ Waits(t, u) /\ Waits(u, t)
        /\ held[t] # {} /\ held[u] # {}

\* a step of thread t inside its insert or erase
WriterStep(t) ==
    /\ pc'[t] # pc[t]
    /\ op[t] \in {"insert", "erase"} \/ op'[t] \in {"insert", "erase"}

\* the key of the call thread t is making or is in
KeyOfStep(t) == IF pc[t] = "idle" THEN key'[t] ELSE key[t]

\* C11: no step of an insert(k, v) or an erase(k) changes, for any key j # k,
\* whether j has an entry, whether find(j) sees it, or the value stored for j,
\* whichever bucket and stripe j falls in.
C11_FrameOfWriters ==
    [][\A t \in Threads : WriterStep(t) =>
          \A j \in Keys \ {KeyOfStep(t)} :
              Lookup(j)' = Lookup(j) /\ Found(j)' = Found(j)]_vars

\* an erase has unlinked its node from a chain, in a table of two buckets,
\* that keeps the node of another key
C11_Witness ==
    \E t \in Threads : \E j \in Keys \ {key[t]} :
        /\ pc[t] = "count" /\ op[t] = "erase" /\ changed[t]
        /\ getIndex(j) = getIndex(key[t]) /\ Lookup(j) # {}
        /\ mCapacity > 1

\* the container as the constructor leaves it, before any call
FreshlyConstructed ==
    /\ \A t \in Threads : pc[t] = "idle" /\ calls[t] = 0
    /\ made = 0

\* C12: construction with capacity 0 throws InvalidCapacity whatever the
\* concurrency level, with capacity >= 1 and concurrency level 0 it throws
\* InvalidConcurrencyLevel, and every other construction succeeds with
\* min(concurrencyLevel, capacity) mutexes, between 1 and capacity of them, all
\* unlocked, capacity empty chains and size() = 0.
C12_Construction ==
    /\ mCapacity = 0 => ctorError = "InvalidCapacity"
    /\ (mCapacity >= 1 /\ ctorLevel = 0) => ctorError = "InvalidConcurrencyLevel"
    /\ (mCapacity >= 1 /\ ctorLevel >= 1) =>
          /\ ctorError = "none"
          /\ mMutexCount <= ctorLevel /\ mMutexCount <= mCapacity
          /\ mMutexCount \in {ctorLevel, mCapacity}
          /\ 1 <= mMutexCount
          /\ DOMAIN mMutexes = 0 .. mMutexCount - 1
          /\ DOMAIN mTable = 0 .. mCapacity - 1
          /\ FreshlyConstructed =>
                /\ size = 0
                /\ \A i \in DOMAIN mTable : mTable[i] = <<>>
                /\ \A m \in DOMAIN mMutexes : mMutexes[m] = NoOwner
    /\ ctorError # "none" => FreshlyConstructed

\* a container constructed with a concurrency level above its capacity has
\* served a call
C12_Witness ==
    /\ ctorError = "none" /\ ctorLevel > mCapacity /\ mCapacity > 1
    /\ mMutexCount = mCapacity
    /\ \E t \in Threads : pc[t] = "idle" /\ res[t] = ValueResult("size", 0)

\* the nodes of all chains, each as its bucket and its position
Entries == UNION {{<<i, j>> : j \in 1 .. Len(mTable[i])} : i \in DOMAIN mTable}

EntryCount == Cardinality(Entries)

\* thread t has updated its chain and not yet the counter
Uncounted(t, o) == pc[t] = "count" /\ op[t] = o /\ changed[t]

\* the entry count of the table with the uncounted mutations undone: each of
\* them is the last one of its stripe in lock order, so what remains is, for
\* every stripe, the mutations up to some point of that order
SerializedCount ==
    EntryCount - Cardinality({t \in Threads : Uncounted(t, "insert")})
               + Cardinality({t \in Threads : Uncounted(t, "erase")})

\* the step at which thread t returns from size() or capacity()
Loads(t, o) == op[t] = o /\ pc[t] = "load" /\ pc'[t] = "idle"

\* C13: whenever no insert or erase is between its chain update and its
\* counter update the counter is the number of entries over all chains; every
\* uncounted mutation holds the lock of its stripe, its key linked (insert) or
\* unlinked (erase); and size() returns the entry count of the table with the
\* uncounted mutations undone, the count a serialization of the others gives.
C13_SizeTracksEntries ==
    /\ [](ctorError = "none" =>
            /\ (\A t \in Threads : ~Uncounted(t, "insert") /\ ~Uncounted(t, "erase"))
                   => mSize = EntryCount
            /\ mSize = SerializedCount
            /\ \A t \in Threads :
                  /\ Uncounted(t, "insert") =>
                        mMutexes[MutexOf(key[t])] = t /\ Lookup(key[t]) # {}
                  /\ Uncounted(t, "erase") =>
                        mMutexes[MutexOf(key[t])] = t /\ Lookup(key[t]) = {})
    /\ [][\A t \in Threads : Loads(t, "size") =>
              res'[t] = ValueResult("size", SerializedCount)]_vars

\* size() has returned 1 to a thread while the table held two entries, one
\* of an insert not yet counted
C13_Witness ==
    \E t \in Threads : \E u \in Threads \ {t} :
        /\ pc[t] = "idle" /\ res[t] = ValueResult("size", 1)
        /\ Uncounted(u, "insert") /\ EntryCount = 2 /\ mSize = 1

\* the next step of the call thread t is inside
StepOfCall(t) ==
    \/ Lock(t) \/ Scan(t)
    \/ FindReturn(t) \/ GetCopyReturn(t) \/ GetReturn(t)
    \/ InsertApply(t) \/ InsertLink(t) \/ InsertReturn(t)
    \/ EraseApply(t) \/ EraseReturn(t)
    \/ SizeReturn(t) \/ CapacityReturn(t)

\* C14: a call can take its next step in every state but the one where it
\* waits for the mutex of its own stripe and that mutex is locked: whichever
\* other mutexes are locked, by handles or by calls, size() and capacity()
\* return, and they lock nothing; a call on another stripe acquires its
\* mutex and runs to its return; and a thread entering its critical section
\* leaves every other thread where it is, inside its own.
C14_OtherStripesFree ==
    /\ [](ctorError = "none" => \A t \in Threads :
              /\ (pc[t] = "lock" /\ mMutexes[MutexOf(key[t])] = NoOwner)
                    => ENABLED Lock(t)
              /\ pc[t] \notin {"idle", "lock"} => ENABLED StepOfCall(t))
    /\ [][\A t \in Threads :
              /\ (Loads(t, "size") \/ Loads(t, "capacity")) => mMutexes' = mMutexes
              /\ (pc[t] = "idle" /\ pc'[t] = "load") => mMutexes' = mMutexes
              /\ (pc[t] = "lock" /\ pc'[t] = "scan") =>
                    \A u \in Threads \ {t} :
                        /\ pc'[u] = pc[u]
                        /\ OwnedBy(u)' = OwnedBy(u)]_vars

\* a thread retains the handle of a get and has since read size(), while
\* another thread is inside its critical section on another stripe
C14_Witness ==
    \E t \in Threads : \E u \in Threads \ {t} : \E h \in held[t] :
        /\ pc[t] = "idle" /\ res[t].op = "size"
        /\ pc[u] = "count" /\ MutexOf(key[u]) # MutexOf(h.key)

\* C15: under a fair scheduler and fair lock acquisition, with every handle
\* released by a holder that makes no keyed call meanwhile, every call
\* returns; and an
\* erase(k) that waits while another thread retains the handle of get(k)
\* returns, k then having no entry.
C15_EveryCallReturns ==
    /\ \A t \in 0 .. NumThreads - 1 : (pc[t] # "idle") ~> (pc[t] = "idle")
    /\ \A t \in 0 .. NumThreads - 1 : \A k \in 0 .. MaxKey :
          (/\ pc[t] = "lock" /\ op[t] = "erase" /\ key[t] = k
           /\ \E u \in Threads \ {t} : \E h \in held[u] : h.key = k)
            ~> (pc[t] = "idle" /\ res[t] = VoidResult("erase") /\ Lookup(k) = {})

\* an erase waits for the mutex of its key, which another thread holds through
\* the handle of its get of that key while it is inside size()
C15_Witness ==
    \E t \in Threads : \E u \in Threads \ {t} : \E h \in held[u] :
        /\ pc[t] = "lock" /\ op[t] = "erase" /\ key[t] = h.key
        /\ pc[u] = "load" /\ op[u] = "size"

\* the table indices whose mutex is mMutexes[m]
Stripe(m) == {i \in 0 .. mCapacity - 1 : getMutex(i) = m}

Contiguous(S) == \A i \in S, j \in S : \A x \in i .. j : x \in S

\* mIndicesPerMutex is ceil(mCapacity / mMutexCount)
IsCeiling ==
    /\ mIndicesPerMutex * mMutexCount >= mCapacity
    /\ (mIndicesPerMutex - 1) * mMutexCount < mCapacity

\* C16 as stated: every mutex guards a contiguous range of exactly
\* ceil(capacity / lockCount) table indices, except that the last mutex may
\* guard fewer.
C16_Original ==
    ctorError = "none" =>
        /\ IsCeiling
        /\ \A m \in 0 .. mMutexCount - 1 :
              /\ Contiguous(Stripe(m))
              /\ m < mMutexCount - 1 => Cardinality(Stripe(m)) = mIndicesPerMutex
              /\ m = mMutexCount - 1 => Cardinality(Stripe(m)) <= mIndicesPerMutex

\* the mutex of the last table index
LastUsedMutex == (mCapacity - 1) \div mIndicesPerMutex

\* C16 amended: with indicesPerLock = ceil(capacity / lockCount), mutex m
\* guards the table indices from m * indicesPerLock up to, and without,
\* (m + 1) * indicesPerLock that are below capacity: exactly indicesPerLock of
\* them for every mutex before the one of the last index, between 1 and
\* indicesPerLock for that one, and none for the mutexes after it; when
\* capacity is a multiple of lockCount every mutex guards indicesPerLock.
C16_StripeLayout ==
    ctorError = "none" =>
        /\ IsCeiling
        /\ LastUsedMutex \in 0 .. mMutexCount - 1
        /\ UNION {Stripe(m) : m \in 0 .. mMutexCount - 1} = 0 .. mCapacity - 1
        /\ \A m \in 0 .. mMutexCount - 1 :
              /\ Contiguous(Stripe(m))
              /\ \A i \in Stripe(m) :
                    m * mIndicesPerMutex <= i /\ i < (m + 1) * mIndicesPerMutex
              /\ m < LastUsedMutex => Cardinality(Stripe(m)) = mIndicesPerMutex
              /\ m = LastUsedMutex =>
                    /\ 1 <= Cardinality(Stripe(m))
                    /\ Cardinality(Stripe(m)) <= mIndicesPerMutex
              /\ m > LastUsedMutex => Stripe(m) = {}
        /\ mCapacity % mMutexCount = 0 =>
              \A m \in 0 .. mMutexCount - 1 :
                  Cardinality(Stripe(m)) = mIndicesPerMutex

\* a call has locked a mutex that is not the last of the array and guards
\* fewer than mIndicesPerMutex table indices
C16_Witness ==
    /\ ctorError = "none"
    /\ \E t \in Threads : \E m \in 0 .. mMutexCount - 2 :
          /\ mMutexes[m] = t /\ pc[t] = "scan"
          /\ Cardinality(Stripe(m)) < mIndicesPerMutex

\* the nodes of key k, each as its bucket and its position
EntriesOf(k) == {x \in Entries : mTable[x[1]][x[2]].key = k}

\* C17: in every state, the steps between the writes of concurrent inserts
\* and erases included, no chain holds two nodes of one key and every node is
\* in the chain of its key's index, so the table holds at most one node per
\* key.
C17_OneEntryPerKey ==
    ctorError = "none" =>
        /\ \A i \in DOMAIN mTable : \A j1 \in 1 .. Len(mTable[i]) :
              \A j2 \in 1 .. Len(mTable[i]) :
                  mTable[i][j1].key = mTable[i][j2].key => j1 = j2
        /\ \A x \in Entries : x[1] = getIndex(mTable[x[1]][x[2]].key)
        /\ \A k \in Keys : Cardinality(EntriesOf(k)) <= 1

\* an insert has overwritten the value of its key in a chain of two nodes
\* while another thread is inside a call
C17_Witness ==
    \E t \in Threads : \E u \in Threads \ {t} :
        /\ pc[t] = "count" /\ op[t] = "insert" /\ ~changed[t]
        /\ Len(mTable[getIndex(key[t])]) = 2
        /\ InFlight(u)

Readers == {"find", "getCopy", "get", "size", "capacity"}

\* a step of thread t inside a call that only reads
ReaderStep(t) ==
    /\ pc'[t] # pc[t]
    /\ op[t] \in Readers \/ op'[t] \in Readers

\* C18: no step of find, getCopy, get (returning or throwing), size or
\* capacity changes a chain, a stored value or the counter; mCapacity never
\* changes, the table keeps mCapacity chains, and capacity() returns
\* mCapacity whatever inserts and erases came before.
C18_ReadersChangeNothing ==
    /\ [](ctorError = "none" => DOMAIN mTable = 0 .. mCapacity - 1)
    /\ [][/\ mCapacity' = mCapacity
          /\ \A t \in Threads :
                /\ ReaderStep(t) => mTable' = mTable /\ mSize' = mSize
                /\ Loads(t, "capacity") =>
                      res'[t] = ValueResult("capacity", mCapacity)]_vars

\* capacity() has returned 2 to one thread on a table of one entry, an erase
\* having returned to another
C18_Witness ==
    \E t \in Threads : \E u \in Threads \ {t} :
        /\ res[t] = ValueResult("capacity", 2) /\ mCapacity = 2
        /\ res[u] = VoidResult("erase")
        /\ EntryCount = 1 /\ mSize = 1

\* the mutexes whose owner the step changes
Relocked == {m \in DOMAIN mMutexes : mMutexes'[m] # mMutexes[m]}

\* C19: for every hash value, the table index is one of the mCapacity chains
\* and the mutex index one of the mMutexCount mutexes; the index and the mutex
\* of a key are the same in every state; and every operation locks the mutex
\* of its key and no other, and unlocks no other when it returns.
C19_MutexInRange ==
    /\ [](ctorError = "none" => \A k \in Keys :
              /\ getIndex(k) \in 0 .. mCapacity - 1
              /\ getIndex(k) \in DOMAIN mTable
              /\ MutexOf(k) \in 0 .. mMutexCount - 1
              /\ MutexOf(k) \in DOMAIN mMutexes)
    /\ [][/\ \A k \in Keys : getIndex(k)' = getIndex(k) /\ MutexOf(k)' = MutexOf(k)
          /\ DOMAIN mMutexes' = DOMAIN mMutexes
          /\ \A t \in Threads :
                /\ (pc[t] = "lock" /\ pc'[t] = "scan") =>
                      /\ mMutexes[MutexOf(key[t])] = NoOwner
                      /\ mMutexes'[MutexOf(key[t])] = t
                      /\ Relocked = {MutexOf(key[t])}
                /\ (InFlight(t) /\ pc'[t] = "idle") =>
                      Relocked \subseteq {MutexOf(key[t])}]_vars

\* a call on a hash value above the capacity holds the last used mutex of a
\* table whose capacity is not a multiple of its mutex count
C19_Witness ==
    /\ ctorError = "none" /\ mHasher = "std"
    /\ mCapacity % mMutexCount # 0
    /\ \E t \in Threads :
          /\ pc[t] = "scan" /\ key[t] >= mCapacity
          /\ MutexOf(key[t]) = LastUsedMutex /\ LastUsedMutex > 0
          /\ mMutexes[LastUsedMutex] = t

UncountedInserts == Cardinality({t \in Threads : Uncounted(t, "insert")})
UncountedErases == Cardinality({t \in Threads : Uncounted(t, "erase")})

\* C20: the counter never goes below 0, which a std::size_t shows as SIZE_MAX
\* and this model as -1: every entry that is unlinked and not yet counted out
\* is still counted in, its insert having incremented before it unlocked; and
\* the counter, with the inserts linked and not yet counted, never exceeds the
\* number of nodes ever linked.
C20_CounterNeverWraps ==
    ctorError = "none" =>
        /\ 0 <= mSize
        /\ UncountedErases <= mSize
        /\ mSize <= created
        /\ mSize + UncountedInserts <= created

\* an insert and an erase on different stripes are both between their chain
\* update and their counter update
C20_Witness ==
    \E t \in Threads : \E u \in Threads \ {t} :
        /\ Uncounted(t, "insert") /\ Uncounted(u, "erase")
        /\ MutexOf(key[t]) # MutexOf(key[u])
        /\ mSize = 1 /\ created = 2

\* thread t is at lock() on a mutex it owns itself, through a handle
SelfWait(t) == pc[t] = "lock" /\ mMutexes[MutexOf(key[t])] = t

\* the step at which thread t acquires the mutex of its call
Acquires(t) == pc[t] = "lock" /\ pc'[t] = "scan"

====
